---------------------------- MODULE Spec2Model ----------------------------
(***************************************************************************)
(* Booking lifecycle and seat inventory of the travel booking application. *)
(*                                                                         *)
(* The persisted rows (one TravelOption, its Bookings, BookingHistory) are *)
(* shared; every request or caller ("worker") works on its own in-memory   *)
(* copies of the rows it loaded, as Django model instances do.  One step   *)
(* of the model is one database access together with the in-memory code    *)
(* around it: code that touches only a worker's private copy commutes with *)
(* every step of the other worker, so these steps give every interleaving  *)
(* of read, check and write.                                               *)
(***************************************************************************)
EXTENDS Integers, Sequences, FiniteSets, TLC

\* ------------------------------------------------------------------ bounds
MaxSeats == 2
MaxCount == 2
MaxBookings == 2
MaxCreated == 1
MaxEvents == 2

Workers == {"w1", "w2"}

\* The caller of the model methods where one caller is followed on its own.
Caller == "w1"

\* Arguments a caller can pass as count: any Python int, here -1 .. MaxCount.
Counts == (0 - 1) .. MaxCount

\* number_of_seats of a booking made through the model.
SeatCounts == 1 .. MaxCount

\* Seat numbers are followed one step beyond the range the fields allow.
InWindow(x) == x >= 0 - 1 /\ x <= MaxSeats + 1

\* Clock readings (hours) and the departure of the TravelOption.
Times == {0, 176, 180, 210}
Departures == {200}

\* timedelta(hours=24)
CancelWindow == 24

BOOKING_STATUS == {"PENDING", "CONFIRMED", "CANCELLED", "COMPLETED", "REFUNDED"}
STATUS_CHOICES == {"ACTIVE", "INACTIVE", "CANCELLED"}
PAYMENT_STATUS == {"PENDING", "COMPLETED", "FAILED", "REFUNDED"}

VARIABLES
    t_avail,     \* TravelOption.available_seats, persisted
    avail0,      \* available_seats the TravelOption was created with
    raced,       \* an available_seats write came from a copy older than the row
    t_total,     \* TravelOption.total_seats, persisted
    t_status,    \* TravelOption.status, persisted
    t_price,     \* TravelOption.base_price, persisted
    departure,   \* TravelOption.departure_datetime, persisted
    now,         \* timezone.now()
    bookings,    \* bookings[pk]: the Booking rows
    history,     \* the BookingHistory rows, oldest first
    opt,         \* opt[w]: worker w's TravelOption instance
    bk,          \* bk[w]: worker w's Booking instance; its travel_option is opt[w]
    pc,          \* pc[w]: where worker w stands in a call that writes more than once
    pre,         \* pre[w]: t_avail when the call worker w is inside began
    last,        \* last[w]: worker w's last call on a TravelOption instance
    route,       \* the PopularRoute row of the TravelOption's (source, destination)
    rt,          \* rt[w]: worker w's PopularRoute instance
    counted,     \* search and successful-payment events that have finished
    ev           \* the call the last step belongs to: who, what, with what result

seats == <<t_avail, raced>>
optionRow == <<avail0, t_total, t_status, t_price, departure>>
bookingVars == <<bookings, history, bk, pc, pre>>
routeVars == <<route, rt, counted>>
vars == <<t_avail, avail0, raced, t_total, t_status, t_price, departure, now, bookings, history,
          opt, bk, pc, pre, last, route, rt, counted, ev>>

NoOpt == [loaded |-> FALSE, avail |-> 0, stale |-> FALSE, price |-> 0]
NoCall == [op |-> "none", n |-> 0, seen |-> 0, stale |-> FALSE, ret |-> "None"]

Event(w, op, n, ret) == [w |-> w, op |-> op, n |-> n, ret |-> ret]
NoEvent == Event("none", "none", 0, "None")

\* A Booking without a primary key: not saved yet.  Dates are <<>> (None)
\* or <<t>>; booking_id 0 is the empty string.
NoBooking == [pk |-> 0, booking_id |-> 0, number_of_seats |-> 0, total_price |-> 0,
              status |-> "PENDING", payment_status |-> "PENDING",
              confirmation_date |-> <<>>, cancellation_date |-> <<>>]

Pks == 1 .. MaxBookings

\* No PopularRoute row for the key yet; a row has both counters.
NoRoute == [exists |-> FALSE, search_count |-> 0, booking_count |-> 0]

\* The rows after the TravelOption is created with one of the given statuses.
InitAs(statuses) ==
    /\ t_total \in 0 .. MaxSeats
    /\ t_avail \in 0 .. t_total
    /\ avail0 = t_avail
    /\ raced = FALSE
    /\ t_status \in statuses
    /\ t_price \in {3}
    /\ departure \in Departures
    /\ now = 0
    /\ bookings = [pk \in Pks |-> NoBooking]
    /\ history = <<>>
    /\ opt = [w \in Workers |-> NoOpt]
    /\ bk = [w \in Workers |-> NoBooking]
    /\ pc = [w \in Workers |-> "idle"]
    /\ pre = [w \in Workers |-> 0]
    /\ last = [w \in Workers |-> NoCall]
    /\ route = NoRoute
    /\ rt = [w \in Workers |-> NoRoute]
    /\ counted = [search |-> 0, booking |-> 0]
    /\ ev = NoEvent

Init == InitAs({"ACTIVE"})

\* ------------------------------------------------------- TravelOption row

\* available_seats is a PositiveIntegerField: the database rejects a
\* negative value with an IntegrityError.
PositiveIntegerField(v) == v >= 0

Fresh(avail) == [loaded |-> TRUE, avail |-> avail, stale |-> FALSE, price |-> t_price]

\* Worker w's instance after it has saved available_seats = new: the other
\* fields of the instance are as they were loaded.
Saved(w, new) == [opt[w] EXCEPT !.avail = new, !.stale = FALSE]

\* The workers' copies of the row after worker w has written its copy mine:
\* every other loaded copy is now older than the row.
Written(w, mine) ==
    [x \in Workers |-> IF x = w THEN mine
                       ELSE IF opt[x].loaded THEN [opt[x] EXCEPT !.stale = TRUE]
                       ELSE opt[x]]

\* TravelOption.objects.get(...) / refresh_from_db(): a fresh copy of the row.
LoadOption(w) ==
    /\ pc[w] = "idle"
    /\ opt' = [opt EXCEPT ![w] = Fresh(t_avail)]
    /\ last' = [last EXCEPT ![w] = NoCall]
    /\ ev' = Event(w, "load", 0, "None")
    /\ UNCHANGED <<routeVars, seats, optionRow, now, bookingVars>>

\* A check that refuses the last seats.
reduce_check_strict(avail, count) == avail > count

\* if self.available_seats >= count
reduce_check(avail, count) == avail >= count

\* if self.available_seats + count <= self.total_seats
increase_check(avail, total, count) == avail + count <= total

SeatCall(w, op, count, ret) ==
    [op |-> op, n |-> count, seen |-> opt[w].avail, stale |-> opt[w].stale, ret |-> ret]

\* self.available_seats = new; self.save(update_fields=['available_seats']);
\* return True, on worker w's instance.
SaveAvailableSeats(w, new, op, count) ==
    IF PositiveIntegerField(new)
    THEN /\ t_avail' = new
         /\ raced' = (raced \/ opt[w].stale)
         /\ opt' = Written(w, Saved(w, new))
         /\ last' = [last EXCEPT ![w] = SeatCall(w, op, count, "True")]
         /\ ev' = Event(w, op, count, "True")
    ELSE /\ UNCHANGED seats
         /\ opt' = [opt EXCEPT ![w].avail = new]
         /\ last' = [last EXCEPT ![w] = SeatCall(w, op, count, "IntegrityError")]
         /\ ev' = Event(w, op, count, "IntegrityError")

\* return False
ReturnFalse(w, op, count) ==
    /\ last' = [last EXCEPT ![w] = SeatCall(w, op, count, "False")]
    /\ ev' = Event(w, op, count, "False")
    /\ UNCHANGED <<seats, opt>>

\* TravelOption.reduce_available_seats(count) on worker w's instance.
reduce_available_seats(w, count) ==
    /\ pc[w] = "idle"
    /\ opt[w].loaded
    /\ reduce_check(opt[w].avail, count) => InWindow(opt[w].avail - count)
    /\ IF reduce_check(opt[w].avail, count)
       THEN SaveAvailableSeats(w, opt[w].avail - count, "reduce", count)
       ELSE ReturnFalse(w, "reduce", count)
    /\ UNCHANGED <<routeVars, optionRow, now, bookingVars>>

\* TravelOption.increase_available_seats(count) on worker w's instance.
increase_available_seats(w, count) ==
    /\ pc[w] = "idle"
    /\ opt[w].loaded
    /\ increase_check(opt[w].avail, t_total, count) => InWindow(opt[w].avail + count)
    /\ IF increase_check(opt[w].avail, t_total, count)
       THEN SaveAvailableSeats(w, opt[w].avail + count, "increase", count)
       ELSE ReturnFalse(w, "increase", count)
    /\ UNCHANGED <<routeVars, optionRow, now, bookingVars>>

\* ------------------------------------------------- seat inventory on its own
NextSeats ==
    \/ \E w \in Workers : LoadOption(w)
    \/ \E w \in Workers, count \in Counts : reduce_available_seats(w, count)
    \/ \E w \in Workers, count \in Counts : increase_available_seats(w, count)

SpecSeats == Init /\ [][NextSeats]_vars

\* ------------------------------------------------------------ Booking rows

Rows == {pk \in Pks : bookings[pk].pk # 0}

\* The primary key the database gives the next inserted row.
NextPk == Cardinality(Rows) + 1

\* generate_booking_id() draws at random.  Ids are only ever compared for
\* equality, so a draw is the id of one of the rows or an id no row holds;
\* rows are numbered as they are inserted, and the id no row holds is NextPk.
Tickets == 1 .. NextPk

\* string.digits
digits == <<"0", "1", "2", "3", "4", "5", "6", "7", "8", "9">>

\* ''.join(random.choices(string.digits, k=k)): the k characters of a draw,
\* the draw given as the number its digits spell.
RECURSIVE random_part(_, _)
random_part(draw, k) ==
    IF k = 0 THEN <<>>
    ELSE Append(random_part(draw \div 10, k - 1), digits[(draw % 10) + 1])

\* generate_booking_id(): f"TKT{random_part}", as a sequence of characters
generate_booking_id(draw) == <<"T", "K", "T">> \o random_part(draw, 7)

\* A database without the unique index on booking_id.
NotUnique(id) == TRUE

\* booking_id is unique=True: an INSERT with a booking_id another row holds
\* fails with an IntegrityError.
UniqueBookingId(id) == \A pk \in Rows : bookings[pk].booking_id # id

\* A save() that computes total_price again from the current base_price.
BookingPreSave_repriced(b, id) ==
    [b EXCEPT
       !.total_price = b.number_of_seats * t_price,
       !.booking_id = IF b.booking_id = 0 THEN id ELSE b.booking_id,
       !.confirmation_date =
           IF b.status = "CONFIRMED" /\ b.confirmation_date = <<>>
           THEN <<now>> ELSE b.confirmation_date,
       !.cancellation_date =
           IF b.status = "CANCELLED" /\ b.cancellation_date = <<>>
           THEN <<now>> ELSE b.cancellation_date]

\* Booking.save(), the part before super().save(): b is the instance, id the
\* draw generate_booking_id() would return.
BookingPreSave(b, id) ==
    [b EXCEPT
       !.booking_id = IF b.booking_id = 0 THEN id ELSE b.booking_id,
       !.confirmation_date =
           IF b.status = "CONFIRMED" /\ b.confirmation_date = <<>>
           THEN <<now>> ELSE b.confirmation_date,
       !.cancellation_date =
           IF b.status = "CANCELLED" /\ b.cancellation_date = <<>>
           THEN <<now>> ELSE b.cancellation_date]

\* Booking.objects.create(travel_option=<w's instance>, number_of_seats=n,
\* total_price=..., status=st): the row is inserted as given and no seat is
\* taken from the TravelOption.
CreateBooking(w, n, st, id) ==
    /\ pc[w] = "idle"
    /\ opt[w].loaded
    /\ NextPk \in Pks
    /\ NextPk <= MaxCreated
    /\ LET b == BookingPreSave([NoBooking EXCEPT !.number_of_seats = n,
                                                 !.total_price = n * t_price,
                                                 !.status = st], id)
       IN IF UniqueBookingId(b.booking_id)
          THEN /\ bookings' = [bookings EXCEPT ![NextPk] = [b EXCEPT !.pk = NextPk]]
               /\ bk' = [bk EXCEPT ![w] = [b EXCEPT !.pk = NextPk]]
               /\ ev' = Event(w, "create", n, "Booking")
          ELSE /\ UNCHANGED <<bookings, bk>>
               /\ ev' = Event(w, "create", n, "IntegrityError")
    /\ UNCHANGED <<routeVars, seats, optionRow, now, history, opt, pc, pre, last>>

\* Booking.objects.select_related('travel_option').get(pk=pk): fresh copies of
\* the booking and of its TravelOption.
LoadBooking(w, pk) ==
    /\ pc[w] = "idle"
    /\ pk \in Rows
    /\ bk' = [bk EXCEPT ![w] = bookings[pk]]
    /\ opt' = [opt EXCEPT ![w] = Fresh(t_avail)]
    /\ ev' = Event(w, "load_booking", 0, "None")
    /\ UNCHANGED <<routeVars, seats, optionRow, now, bookings, history, pc, pre, last>>

\* A guard that lets a confirmed booking through a second time.
confirm_check_again(b) == b.status \in {"PENDING", "CONFIRMED"}

\* if self.status == 'PENDING'
confirm_check(b) == b.status = "PENDING"

\* A confirmation that forgets the payment.
Confirmed_unpaid(b) ==
    [b EXCEPT !.status = "CONFIRMED", !.confirmation_date = <<now>>]

\* The assignments of confirm_booking before self.save().
Confirmed(b) ==
    [b EXCEPT !.status = "CONFIRMED", !.confirmation_date = <<now>>,
              !.payment_status = "COMPLETED"]

\* Booking.confirm_booking() on worker w's instance; self.save() writes every
\* field of the instance to the row.
confirm_booking(w) ==
    /\ pc[w] = "idle"
    /\ bk[w].pk # 0
    /\ IF confirm_check(bk[w])
       THEN LET b == BookingPreSave(Confirmed(bk[w]), 0)
            IN /\ bk' = [bk EXCEPT ![w] = b]
               /\ bookings' = [bookings EXCEPT ![b.pk] = b]
               /\ ev' = Event(w, "confirm_booking", 0, "True")
       ELSE /\ UNCHANGED <<bk, bookings>>
            /\ ev' = Event(w, "confirm_booking", 0, "False")
    /\ UNCHANGED <<routeVars, seats, optionRow, now, history, opt, pc, pre, last>>

\* Booking.is_past_travel
is_past_travel == departure < now

\* TravelOption.can_be_cancelled: 24 hours before departure
option_can_be_cancelled == now < departure - CancelWindow

\* Booking.can_be_cancelled (a TravelOption always has can_be_cancelled)
can_be_cancelled(b) ==
    IF b.status \in {"CANCELLED", "COMPLETED"} THEN FALSE
    ELSE IF is_past_travel THEN FALSE
    ELSE option_can_be_cancelled

\* datetime.date(): the calendar day of a clock reading in hours
date(t) == t \div 24

\* Booking.days_until_travel
days_until_travel ==
    IF is_past_travel THEN 0 ELSE date(departure) - date(now)

\* Booking.refund_amount, in hundredths of the unit of total_price:
\* float(total_price) * 0.9 is 90 hundredths of total_price
refund_amount(b) ==
    IF ~can_be_cancelled(b) THEN 0
    ELSE IF days_until_travel >= 7 THEN b.total_price * 90
    ELSE IF days_until_travel >= 3 THEN b.total_price * 75
    ELSE IF days_until_travel >= 1 THEN b.total_price * 50
    ELSE 0

\* A guard without the status test.
cancel_check_any_status(b) == can_be_cancelled(b)

\* if self.can_be_cancelled and self.status == 'CONFIRMED'
cancel_check(b) == can_be_cancelled(b) /\ b.status = "CONFIRMED"

\* self.travel_option.increase_available_seats(self.number_of_seats) inside
\* cancel_booking: the row after the call, whose return value is dropped.
Restored(avail, n) ==
    IF increase_check(avail, t_total, n) THEN avail + n ELSE avail

\* Booking.cancel_booking() up to and including the call of
\* increase_available_seats.
cancel_booking(w) ==
    /\ pc[w] = "idle"
    /\ bk[w].pk # 0
    /\ opt[w].loaded
    /\ IF cancel_check(bk[w])
       THEN LET n == bk[w].number_of_seats
            IN /\ bk' = [bk EXCEPT ![w].status = "CANCELLED",
                                   ![w].cancellation_date = <<now>>]
               /\ pre' = [pre EXCEPT ![w] = t_avail]
               /\ IF increase_check(opt[w].avail, t_total, n)
                  THEN /\ t_avail' = Restored(opt[w].avail, n)
                       /\ raced' = (raced \/ opt[w].stale)
                       /\ opt' = Written(w, Saved(w, Restored(opt[w].avail, n)))
                  ELSE UNCHANGED <<seats, opt>>
               /\ pc' = [pc EXCEPT ![w] = "cancel_save"]
               /\ ev' = Event(w, "cancel_booking", n, "None")
       ELSE /\ ev' = Event(w, "cancel_booking", bk[w].number_of_seats, "False")
            /\ UNCHANGED <<seats, opt, bk, pc, pre>>
    /\ UNCHANGED <<routeVars, optionRow, now, bookings, history, last>>

\* Booking.cancel_booking(): self.save(); return True
cancel_booking_save(w) ==
    /\ pc[w] = "cancel_save"
    /\ LET b == BookingPreSave(bk[w], 0)
       IN /\ bk' = [bk EXCEPT ![w] = b]
          /\ bookings' = [bookings EXCEPT ![b.pk] = b]
          /\ ev' = Event(w, "cancel_booking", b.number_of_seats, "True")
    /\ pc' = [pc EXCEPT ![w] = "idle"]
    /\ pre' = [pre EXCEPT ![w] = 0]
    /\ UNCHANGED <<routeVars, seats, optionRow, now, history, opt, last>>

\* Time passes, to one of the given clock readings.
Pass(times) ==
    /\ \E t \in times : t > now /\ now' = t
    /\ ev' = NoEvent
    /\ UNCHANGED <<routeVars, seats, optionRow, bookings, history, opt, bk, pc, pre, last>>

Tick == Pass(Times)

\* --------------------------------- the model methods of Booking, one caller
Next ==
    \/ LoadOption(Caller)
    \/ \E n \in SeatCounts, st \in BOOKING_STATUS, id \in Tickets :
           CreateBooking(Caller, n, st, id)
    \/ \E pk \in Pks : LoadBooking(Caller, pk)
    \/ confirm_booking(Caller)
    \/ cancel_booking(Caller)
    \/ cancel_booking_save(Caller)
    \/ Tick

Spec == Init /\ [][Next]_vars

\* ------------------------------------------------------------ BookingForm

\* validators=[MinValueValidator(1), MaxValueValidator(10)]
MinValue == 1
MaxValue == 10

\* number_of_seats a client can post: nothing sensible, a sensible count, or
\* more than the form allows.
FormSeats == (0 .. MaxCount) \cup {MaxValue + 1}

\* Python binds the positional arguments to the leading parameters and then
\* the keywords: a keyword that names a parameter already bound raises
\* TypeError (got multiple values for argument).
MultipleValues(params, npos, keywords) ==
    \E i \in 1 .. Len(params) : i <= npos /\ params[i] \in keywords

\* def __init__(self, travel_option=None, user=None, *args, **kwargs)
BookingForm_init == <<"travel_option", "user">>

\* def __init__(self, booking=None, *args, **kwargs)
CancellationForm_init == <<"booking">>

number_of_seats_validators(n) == n >= MinValue /\ n <= MaxValue

\* A form that never looks at the seats left.
validators_only(n, avail) == number_of_seats_validators(n)

\* A seat check that lets one seat too many through.
clean_off_by_one(n, avail) == ~(n > avail + 1)

\* clean_number_of_seats: ValidationError if seats > travel_option.available_seats
clean_number_of_seats(n, avail) == ~(n > avail)

\* form.is_valid() as far as number_of_seats decides it (the other fields are
\* posted valid): clean_number_of_seats runs only after the validators passed.
is_valid(n, avail) ==
    number_of_seats_validators(n) /\ clean_number_of_seats(n, avail)

\* is_valid() of worker w's bound form whose travel_option shows avail; then
\* is where w stands when the form is valid.
FormCleaned(w, n, avail, op, then) ==
    IF is_valid(n, avail)
    THEN /\ bk' = [bk EXCEPT ![w] = [NoBooking EXCEPT !.number_of_seats = n]]
         /\ pc' = [pc EXCEPT ![w] = then]
         /\ ev' = Event(w, op, n, "valid")
    ELSE /\ UNCHANGED <<bk, pc>>
         /\ ev' = Event(w, op, n, "number_of_seats")

\* BookingForm(data=..., travel_option=<w's instance>, user=...).is_valid()
BookingForm_is_valid(w, n) ==
    /\ pc[w] = "idle"
    /\ opt[w].loaded
    /\ IF MultipleValues(BookingForm_init, 0, {"data", "travel_option", "user"})
       THEN /\ ev' = Event(w, "BookingForm", n, "TypeError")
            /\ UNCHANGED <<bk, pc>>
       ELSE FormCleaned(w, n, opt[w].avail, "BookingForm", "form_valid")
    /\ UNCHANGED <<routeVars, seats, optionRow, now, bookings, history, opt, pre, last>>

\* BookingForm.save() up to and including booking.save(): the INSERT.
BookingForm_save(w, id) ==
    /\ pc[w] \in {"form_valid", "post_valid"}
    /\ NextPk \in Pks
    /\ LET n == bk[w].number_of_seats
           b == BookingPreSave([bk[w] EXCEPT !.total_price = n * opt[w].price], id)
       IN IF UniqueBookingId(b.booking_id)
          THEN /\ bookings' = [bookings EXCEPT ![NextPk] = [b EXCEPT !.pk = NextPk]]
               /\ bk' = [bk EXCEPT ![w] = [b EXCEPT !.pk = NextPk]]
               /\ pc' = [pc EXCEPT ![w] = IF pc[w] = "form_valid" THEN "form_reduce"
                                          ELSE "post_reduce"]
               /\ ev' = Event(w, "BookingForm.save", n, "None")
          ELSE /\ UNCHANGED <<bookings, bk>>
               /\ pc' = [pc EXCEPT ![w] = "idle"]
               /\ ev' = Event(w, "BookingForm.save", n, "IntegrityError")
    /\ UNCHANGED <<routeVars, seats, optionRow, now, history, opt, pre, last>>

\* BookingHistory.objects.create(booking=pk, status_from=from, status_to=to):
\* status_from is a CharField without null=True, so None is refused by the
\* database and no row is written.
HistoryCreate(pk, from, to) ==
    IF from = "None" THEN history
    ELSE Append(history, [booking |-> pk, status_from |-> from, status_to |-> to])

\* BookingForm.save(), the rest: reduce_available_seats on the form's
\* travel_option, its result dropped; return booking.  In
\* BookingCreateView.post the BookingHistory row follows.
BookingForm_save_reduce(w) ==
    /\ pc[w] \in {"form_reduce", "post_reduce"}
    /\ LET n == bk[w].number_of_seats
       IN IF reduce_check(opt[w].avail, n)
          THEN SaveAvailableSeats(w, opt[w].avail - n, "BookingForm.save", n)
          ELSE ReturnFalse(w, "BookingForm.save", n)
    /\ history' = IF pc[w] = "post_reduce"
                  THEN HistoryCreate(bk[w].pk, "None", "PENDING") ELSE history
    /\ pc' = [pc EXCEPT ![w] = "idle"]
    /\ UNCHANGED <<routeVars, optionRow, now, bookings, bk, pre>>

\* --------------------------------------- the booking form under two requests
NextForm ==
    \/ \E w \in Workers : LoadOption(w)
    \/ \E w \in Workers, n \in FormSeats : BookingForm_is_valid(w, n)
    \/ \E w \in Workers, id \in Tickets : BookingForm_save(w, id)
    \/ \E w \in Workers : BookingForm_save_reduce(w)

SpecForm == Init /\ [][NextForm]_vars

\* ------------------------------------------------------------------ views

\* timedelta(hours=24) in BookingCancelView.dispatch
CancelDeadline == 24

\* A comparison that lets the request exactly 24 hours before departure in.
too_late_strict == departure < now + CancelDeadline

\* if self.booking.travel_option.departure_datetime <= timezone.now() + timedelta(hours=24)
too_late == departure <= now + CancelDeadline

\* POST bookings:create with number_of_seats = n: dispatch, then post as far
\* as form.is_valid().  The form is built as
\* BookingForm(request.POST, travel_option=..., user=...).
BookingCreateView(w, n) ==
    /\ pc[w] = "idle"
    /\ IF t_status # "ACTIVE"
       THEN /\ ev' = Event(w, "BookingCreateView", n, "404")
            /\ UNCHANGED <<opt, bk, pc>>
       ELSE /\ opt' = [opt EXCEPT ![w] = Fresh(t_avail)]
            /\ IF t_avail = 0 \/ departure <= now
               THEN /\ ev' = Event(w, "BookingCreateView", n, "redirect")
                    /\ UNCHANGED <<bk, pc>>
               ELSE IF MultipleValues(BookingForm_init, 1, {"travel_option", "user"})
               THEN /\ ev' = Event(w, "BookingCreateView", n, "TypeError")
                    /\ UNCHANGED <<bk, pc>>
               ELSE FormCleaned(w, n, t_avail, "BookingCreateView", "post_valid")
    /\ UNCHANGED <<routeVars, seats, optionRow, now, bookings, history, pre, last>>

\* POST bookings:cancel for the booking_id of row pk: dispatch, then post.
\* The form is built as CancellationForm(request.POST, booking=...); past it,
\* post saves status and cancellation_date and calls
\* travel_option.restore_available_seats, which TravelOption does not define.
BookingCancelView(w, pk) ==
    /\ pc[w] = "idle"
    /\ pk \in Rows
    /\ IF bookings[pk].status # "CONFIRMED"
       THEN /\ ev' = Event(w, "BookingCancelView", bookings[pk].number_of_seats, "404")
            /\ UNCHANGED <<opt, bk, bookings>>
       ELSE LET b == bookings[pk]
                c == [b EXCEPT !.status = "CANCELLED", !.cancellation_date = <<now>>]
            IN /\ opt' = [opt EXCEPT ![w] = Fresh(t_avail)]
               /\ IF too_late
                  THEN /\ ev' = Event(w, "BookingCancelView", b.number_of_seats, "redirect")
                       /\ bk' = [bk EXCEPT ![w] = b]
                       /\ UNCHANGED bookings
                  ELSE IF MultipleValues(CancellationForm_init, 1, {"booking"})
                  THEN /\ ev' = Event(w, "BookingCancelView", b.number_of_seats, "TypeError")
                       /\ bk' = [bk EXCEPT ![w] = b]
                       /\ UNCHANGED bookings
                  ELSE /\ ev' = Event(w, "BookingCancelView", b.number_of_seats,
                                      "AttributeError")
                       /\ bk' = [bk EXCEPT ![w] = c]
                       /\ bookings' = [bookings EXCEPT ![pk] = c]
    /\ UNCHANGED <<routeVars, seats, optionRow, now, history, pc, pre, last>>

\* ------------------------------------ the endpoints, one client after another
NextViews ==
    \/ LoadOption(Caller)
    \/ \E n \in SeatCounts, st \in BOOKING_STATUS, id \in Tickets :
           CreateBooking(Caller, n, st, id)
    \/ \E n \in FormSeats : BookingForm_is_valid(Caller, n)
    \/ \E id \in Tickets : BookingForm_save(Caller, id)
    \/ BookingForm_save_reduce(Caller)
    \/ \E n \in FormSeats : BookingCreateView(Caller, n)
    \/ \E pk \in Pks : BookingCancelView(Caller, pk)
    \/ Tick

InitViews == InitAs(STATUS_CHOICES)

SpecViews == InitViews /\ [][NextViews]_vars

\* ------------------------------------------------- payment, admin, prices

\* POST bookings:confirm for row pk: get_object() over the PENDING bookings,
\* booking.confirmation_date = timezone.now(),
\* booking.save(update_fields=['confirmation_date']), redirect to payment.
BookingConfirmView(w, pk) ==
    /\ pc[w] = "idle"
    /\ pk \in Rows
    /\ IF bookings[pk].status = "PENDING"
       THEN LET b == BookingPreSave([bookings[pk] EXCEPT !.confirmation_date = <<now>>], 0)
            IN /\ bk' = [bk EXCEPT ![w] = b]
               /\ opt' = [opt EXCEPT ![w] = Fresh(t_avail)]
               /\ bookings' = [bookings EXCEPT ![pk].confirmation_date = b.confirmation_date]
               /\ ev' = Event(w, "BookingConfirmView", b.number_of_seats, "redirect")
       ELSE /\ ev' = Event(w, "BookingConfirmView", bookings[pk].number_of_seats, "404")
            /\ UNCHANGED <<bk, opt, bookings>>
    /\ UNCHANGED <<routeVars, seats, optionRow, now, history, pc, pre, last>>

\* An increment computed in Python from the value the instance holds.
plus_one_on_instance(row, instance) == instance + 1

\* route.search_count = F('search_count') + 1; route.save(update_fields=[...]):
\* the UPDATE computes the new value from the row, not from the instance.
F_plus_one(row, instance) == row + 1

\* PopularRoute.objects.get_or_create(source=..., destination=...) run without
\* interruption: the row with counters at their default 0 if there was none.
get_or_create(r) == IF r.exists THEN r ELSE [NoRoute EXCEPT !.exists = TRUE]

\* PaymentView.post, self.get_object(): the booking must be PENDING; the
\* queryset has select_related('travel_option').
PaymentView_get(w, pk) ==
    /\ pc[w] = "idle"
    /\ pk \in Rows
    /\ IF bookings[pk].status = "PENDING"
       THEN /\ bk' = [bk EXCEPT ![w] = bookings[pk]]
            /\ opt' = [opt EXCEPT ![w] = Fresh(t_avail)]
            /\ pc' = [pc EXCEPT ![w] = "payment"]
            /\ ev' = Event(w, "PaymentView", bookings[pk].number_of_seats, "None")
       ELSE /\ ev' = Event(w, "PaymentView", bookings[pk].number_of_seats, "404")
            /\ UNCHANGED <<bk, opt, pc>>
    /\ UNCHANGED <<routeVars, seats, optionRow, now, bookings, history, pre, last>>

\* PaymentView.post after process_payment returned ok: the instance becomes
\* CONFIRMED / PAID and save(update_fields=['status', 'payment_status'])
\* writes these two fields over the row; then the PopularRoute row's
\* booking_count and the BookingHistory row.
PaymentView_pay(w, ok) ==
    /\ pc[w] = "payment"
    /\ IF ok
       THEN LET b == BookingPreSave([bk[w] EXCEPT !.status = "CONFIRMED",
                                                  !.payment_status = "PAID"], 0)
            IN /\ bk' = [bk EXCEPT ![w] = b]
               /\ bookings' = [bookings EXCEPT ![b.pk].status = b.status,
                                               ![b.pk].payment_status = b.payment_status]
               /\ route' = [get_or_create(route) EXCEPT
                               !.booking_count =
                                   F_plus_one(get_or_create(route).booking_count,
                                              get_or_create(route).booking_count)]
               /\ counted' = [counted EXCEPT !.booking = @ + 1]
               /\ history' = HistoryCreate(b.pk, "PENDING", "CONFIRMED")
               /\ ev' = Event(w, "PaymentView", b.number_of_seats, "payment_success")
       ELSE /\ ev' = Event(w, "PaymentView", bk[w].number_of_seats, "payment_failure")
            /\ UNCHANGED <<bk, bookings, history, route, counted>>
    /\ pc' = [pc EXCEPT ![w] = "idle"]
    /\ UNCHANGED <<rt, seats, optionRow, now, opt, pre, last>>

\* A filter that forgets the status.
completable_any_status(b) == departure < now

\* queryset.filter(status='CONFIRMED', travel_option__departure_datetime__lt=timezone.now())
completable(b) == b.status = "CONFIRMED" /\ departure < now

\* BookingAdmin.mark_completed: one UPDATE of every CONFIRMED booking whose
\* departure has passed; no instance is loaded.
mark_completed(w) ==
    /\ pc[w] = "idle"
    /\ bookings' = [pk \in Pks |->
                      IF pk \in Rows /\ completable(bookings[pk])
                      THEN [bookings[pk] EXCEPT !.status = "COMPLETED"]
                      ELSE bookings[pk]]
    /\ ev' = Event(w, "mark_completed", 0, "None")
    /\ UNCHANGED <<routeVars, seats, optionRow, now, history, opt, bk, pc, pre, last>>

\* base_price values an operator can set.
Prices == {3, 4}

\* The operator edits the TravelOption and saves another base_price.
ChangeBasePrice(p) ==
    /\ p # t_price
    /\ t_price' = p
    /\ ev' = NoEvent
    /\ UNCHANGED <<routeVars, seats, avail0, t_total, t_status, departure, now, bookings, history,
                   opt, bk, pc, pre, last>>

\* -------------------------- the lifecycle operations, one after another
NextLife ==
    \/ LoadOption(Caller)
    \/ \E n \in FormSeats : BookingForm_is_valid(Caller, n)
    \/ \E id \in Tickets : NextPk <= MaxCreated /\ BookingForm_save(Caller, id)
    \/ BookingForm_save_reduce(Caller)
    \/ \E pk \in Pks : LoadBooking(Caller, pk)
    \/ confirm_booking(Caller)
    \/ cancel_booking(Caller)
    \/ cancel_booking_save(Caller)
    \/ \E pk \in Pks : PaymentView_get(Caller, pk)
    \/ \E ok \in BOOLEAN : PaymentView_pay(Caller, ok)
    \/ \E pk \in Pks : BookingCancelView(Caller, pk)
    \/ mark_completed(Caller)
    \/ Tick

SpecLife == Init /\ [][NextLife]_vars

\* ------------- the same operations with the confirm step before the payment
NextDates ==
    \/ LoadOption(Caller)
    \/ \E n \in SeatCounts : BookingForm_is_valid(Caller, n)
    \/ \E id \in Tickets : NextPk <= MaxCreated /\ BookingForm_save(Caller, id)
    \/ BookingForm_save_reduce(Caller)
    \/ \E pk \in Pks : LoadBooking(Caller, pk)
    \/ \E pk \in Pks : BookingConfirmView(Caller, pk)
    \/ confirm_booking(Caller)
    \/ cancel_booking(Caller)
    \/ cancel_booking_save(Caller)
    \/ \E pk \in Pks : PaymentView_get(Caller, pk)
    \/ \E ok \in BOOLEAN : PaymentView_pay(Caller, ok)
    \/ \E pk \in Pks : BookingCancelView(Caller, pk)
    \/ mark_completed(Caller)
    \/ Tick

SpecDates == Init /\ [][NextDates]_vars

\* ------------------------------------------------------ admin bulk cancel

\* The loop of BookingAdmin.cancel_bookings over the selected bookings S, from
\* row k down (ordering is -booking_date).  The queryset is read once, with
\* select_related: every booking comes with a TravelOption instance of its
\* own that shows the available_seats of that moment, t_avail.  acc is the
\* persisted available_seats, the booking rows, the tally and the number of
\* writes of available_seats so far.
RECURSIVE CancelEach(_, _, _)
CancelEach(k, S, acc) ==
    IF k = 0 THEN acc
    ELSE LET b == bookings[k]
             n == b.number_of_seats
             c == BookingPreSave([b EXCEPT !.status = "CANCELLED",
                                           !.cancellation_date = <<now>>], 0)
             wrote == increase_check(t_avail, t_total, n)
         IN IF k \in S /\ b.pk # 0 /\ b.status = "CONFIRMED" /\ cancel_check(b)
            THEN CancelEach(k - 1, S,
                            [avail |-> IF wrote THEN Restored(t_avail, n) ELSE acc.avail,
                             rows |-> [acc.rows EXCEPT ![k] = c],
                             tally |-> acc.tally + 1,
                             writes |-> acc.writes + (IF wrote THEN 1 ELSE 0)])
            ELSE CancelEach(k - 1, S, acc)

\* BookingAdmin.cancel_bookings(request, queryset) with the bookings S selected;
\* the message reports the tally.
cancel_bookings(w, S) ==
    /\ pc[w] = "idle"
    /\ S # {}
    /\ S \subseteq Rows
    /\ LET r == CancelEach(MaxBookings, S,
                           [avail |-> t_avail, rows |-> bookings, tally |-> 0, writes |-> 0])
       IN /\ t_avail' = r.avail
          /\ raced' = (raced \/ r.writes > 1)
          /\ bookings' = r.rows
          /\ opt' = [x \in Workers |->
                        IF r.writes > 0 /\ opt[x].loaded
                        THEN [opt[x] EXCEPT !.stale = TRUE] ELSE opt[x]]
          /\ ev' = Event(w, "cancel_bookings", r.tally, "None")
    /\ UNCHANGED <<routeVars, optionRow, now, history, bk, pc, pre, last>>

NextAdmin ==
    \/ LoadOption(Caller)
    \/ \E n \in SeatCounts : BookingForm_is_valid(Caller, n)
    \/ \E id \in Tickets : BookingForm_save(Caller, id)
    \/ BookingForm_save_reduce(Caller)
    \/ \E pk \in Pks : LoadBooking(Caller, pk)
    \/ confirm_booking(Caller)
    \/ \E S \in SUBSET Pks : cancel_bookings(Caller, S)
    \/ Tick

SpecAdmin == Init /\ [][NextAdmin]_vars

\* ------------------------------------------------------ inventory management

\* Values a staff user can post for available_seats and total_seats.
SeatValues == (0 - 1) .. MaxSeats

\* The form fields of a PositiveIntegerField: IntegerField(min_value=0).
seat_fields_valid(available, total) == available >= 0 /\ total >= 0

\* TravelOptionForm.clean, the seats: `if available_seats and total_seats:`
\* is true only when both are non-zero.
TravelOptionForm_clean(available, total) ==
    ~((available # 0 /\ total # 0) /\ available > total)

\* POST to TravelOptionUpdateView with the two seat numbers (every other field
\* posted valid): form.is_valid(), then form.save() writes the row.
TravelOptionUpdateView(w, available, total) ==
    /\ pc[w] = "idle"
    /\ IF seat_fields_valid(available, total) /\ TravelOptionForm_clean(available, total)
       THEN /\ t_avail' = available
            /\ t_total' = total
            /\ avail0' = available
            /\ opt' = [x \in Workers |->
                          IF opt[x].loaded THEN [opt[x] EXCEPT !.stale = TRUE] ELSE opt[x]]
            /\ ev' = Event(w, "TravelOptionForm", available, "valid")
       ELSE /\ UNCHANGED <<t_avail, t_total, avail0, opt>>
            /\ ev' = Event(w, "TravelOptionForm", available, "ValidationError")
    /\ UNCHANGED <<routeVars, raced, t_status, t_price, departure, now, bookingVars, last>>

NextInventory ==
    \/ LoadOption(Caller)
    \/ \E a \in SeatValues, t \in SeatValues : TravelOptionUpdateView(Caller, a, t)
    \/ \E n \in FormSeats : BookingForm_is_valid(Caller, n)

SpecInventory == Init /\ [][NextInventory]_vars

\* ----------------------------------------- PopularRoute under two requests

\* Events of one kind that are finished or under way.
Started(kind) ==
    IF kind = "search"
    THEN counted.search + Cardinality({w \in Workers : pc[w] \in {"search_insert", "search_save"}})
    ELSE counted.booking + Cardinality({w \in Workers : pc[w] \in {"booking_insert", "booking_save"}})

\* get_or_create, the SELECT: kind is "search" (update_route_popularity) or
\* "booking" (PaymentView.post after a passing draw).
RouteGet(w, kind) ==
    /\ pc[w] = "idle"
    /\ Started(kind) < MaxEvents
    /\ rt' = [rt EXCEPT ![w] = route]
    /\ pc' = [pc EXCEPT ![w] = IF kind = "search"
                               THEN (IF route.exists THEN "search_save" ELSE "search_insert")
                               ELSE (IF route.exists THEN "booking_save" ELSE "booking_insert")]
    /\ ev' = Event(w, "get_or_create", 0, IF route.exists THEN "get" ELSE "DoesNotExist")
    /\ UNCHANGED <<seats, optionRow, now, bookings, history, opt, bk, pre, last,
                   route, counted>>

\* get_or_create, the INSERT after the SELECT found nothing: unique_together
\* on (source, destination) refuses a second row, and get_or_create then
\* returns the row that is there.
RouteInsert(w) ==
    /\ pc[w] \in {"search_insert", "booking_insert"}
    /\ route' = get_or_create(route)
    /\ rt' = [rt EXCEPT ![w] = route']
    /\ pc' = [pc EXCEPT ![w] = IF pc[w] = "search_insert" THEN "search_save"
                               ELSE "booking_save"]
    /\ ev' = Event(w, "get_or_create", 0, IF route.exists THEN "IntegrityError" ELSE "created")
    /\ UNCHANGED <<seats, optionRow, now, bookings, history, opt, bk, pre, last, counted>>

\* route.search_count = F('search_count') + 1 (or booking_count);
\* route.save(update_fields=[...]): one UPDATE of the one column.
RouteSave(w) ==
    /\ pc[w] \in {"search_save", "booking_save"}
    /\ IF pc[w] = "search_save"
       THEN /\ route' = [route EXCEPT
                           !.search_count = F_plus_one(route.search_count, rt[w].search_count)]
            /\ counted' = [counted EXCEPT !.search = @ + 1]
            /\ ev' = Event(w, "update_route_popularity", 0, "None")
       ELSE /\ route' = [route EXCEPT
                           !.booking_count = F_plus_one(route.booking_count, rt[w].booking_count)]
            /\ counted' = [counted EXCEPT !.booking = @ + 1]
            /\ ev' = Event(w, "PaymentView", 0, "payment_success")
    /\ rt' = [rt EXCEPT ![w] = NoRoute]
    /\ pc' = [pc EXCEPT ![w] = "idle"]
    /\ UNCHANGED <<seats, optionRow, now, bookings, history, opt, bk, pre, last>>

NextRoute ==
    \/ \E w \in Workers, kind \in {"search", "booking"} : RouteGet(w, kind)
    \/ \E w \in Workers : RouteInsert(w)
    \/ \E w \in Workers : RouteSave(w)

SpecRoute == Init /\ [][NextRoute]_vars

\* ------------------------- payment, cancellation and admin requests at once
NextRace ==
    \/ \E w \in Workers : LoadOption(w)
    \/ \E w \in Workers, n \in SeatCounts, id \in Tickets :
           CreateBooking(w, n, "PENDING", id)
    \/ \E w \in Workers, pk \in Pks : LoadBooking(w, pk)
    \/ \E w \in Workers : confirm_booking(w)
    \/ \E w \in Workers : cancel_booking(w)
    \/ \E w \in Workers : cancel_booking_save(w)
    \/ \E w \in Workers, pk \in Pks : PaymentView_get(w, pk)
    \/ \E w \in Workers, ok \in BOOLEAN : PaymentView_pay(w, ok)
    \/ \E w \in Workers, pk \in Pks : BookingCancelView(w, pk)
    \/ \E w \in Workers : mark_completed(w)
    \/ Tick

SpecRace == Init /\ [][NextRace]_vars

\* ------------------- the same operations while the operator changes the price
\* Seat numbers play no part in prices: the TravelOption starts with every
\* seat free, requests ask for 1 .. MaxCount seats, and the clock is read well
\* before and after departure.
InitPrice == Init /\ t_total = MaxSeats /\ t_avail = t_total

PriceTimes == {0, 210}

NextPrice ==
    \/ LoadOption(Caller)
    \/ \E n \in SeatCounts : BookingForm_is_valid(Caller, n)
    \/ \E id \in Tickets : NextPk <= MaxCreated /\ BookingForm_save(Caller, id)
    \/ BookingForm_save_reduce(Caller)
    \/ \E pk \in Pks : LoadBooking(Caller, pk)
    \/ confirm_booking(Caller)
    \/ cancel_booking(Caller)
    \/ cancel_booking_save(Caller)
    \/ \E pk \in Pks : PaymentView_get(Caller, pk)
    \/ \E ok \in BOOLEAN : PaymentView_pay(Caller, ok)
    \/ mark_completed(Caller)
    \/ \E p \in Prices : ChangeBasePrice(p)
    \/ Pass(PriceTimes)

SpecPrice == InitPrice /\ [][NextPrice]_vars

\* ------------------------------------------- booking ids, drawn and kept
\* Bookings are made through the form, every draw of generate_booking_id
\* being the id of a row or a new one, and saved again by confirm_booking
\* and cancel_booking.
NextTickets ==
    \/ LoadOption(Caller)
    \/ \E n \in SeatCounts : BookingForm_is_valid(Caller, n)
    \/ \E id \in Tickets : BookingForm_save(Caller, id)
    \/ BookingForm_save_reduce(Caller)
    \/ \E pk \in Pks : LoadBooking(Caller, pk)
    \/ confirm_booking(Caller)
    \/ cancel_booking(Caller)
    \/ cancel_booking_save(Caller)

SpecTickets == InitPrice /\ [][NextTickets]_vars

\* ------------------------------------------------------------------ C1
\* C1: for the TravelOption, 0 <= available_seats <= total_seats in every
\* reachable state, persisted and in every loaded instance, after any sequence
\* of reduce_available_seats(n) and increase_available_seats(n) calls whatever
\* their arguments.
C1_SeatBounds ==
    /\ 0 <= t_avail /\ t_avail <= t_total
    /\ \A w \in Workers :
         opt[w].loaded => (0 <= opt[w].avail /\ opt[w].avail <= t_total)

\* ------------------------------------------------------------------ C2
\* C2: whenever cancel_booking returns True, the persisted available_seats
\* is exactly number_of_seats more than it was when the call began.
C2_CancelRestoresSeats ==
    [][(ev'.op = "cancel_booking" /\ ev'.ret = "True")
           => t_avail' = pre[ev'.w] + ev'.n]_vars

\* ------------------------------------------------------------------ C3
\* C3: cancel_booking called on a booking that is not CONFIRMED, or whose
\* can_be_cancelled is false, returns False and changes neither the booking
\* nor the seats, in the rows and in the caller's instances.
C3_CancelRefused ==
    [][\A w \in Workers :
          (/\ ev'.op = "cancel_booking" /\ ev'.w = w
           /\ pc[w] = "idle"
           /\ (bk[w].status # "CONFIRMED" \/ ~can_be_cancelled(bk[w])))
          => (/\ ev'.ret = "False"
              /\ UNCHANGED <<t_avail, bookings, history, bk, opt>>)]_vars

\* cancel_booking has just refused a CONFIRMED booking that is too close to
\* departure.
C3_RefusedTooLate ==
    /\ ev.op = "cancel_booking" /\ ev.ret = "False"
    /\ bk[ev.w].status = "CONFIRMED"
    /\ ~can_be_cancelled(bk[ev.w])

\* ------------------------------------------------------------------ C4
\* C4: confirm_booking on a booking whose status is not PENDING returns False
\* and changes nothing; so of two calls in a row only the first has effect.
C4_ConfirmOnlyPending ==
    [][\A w \in Workers :
          (/\ ev'.op = "confirm_booking" /\ ev'.w = w
           /\ bk[w].status # "PENDING")
          => (/\ ev'.ret = "False"
              /\ UNCHANGED <<t_avail, bookings, history, bk, opt>>)]_vars

\* confirm_booking has just returned False on a booking an earlier
\* confirm_booking confirmed.
C4_SecondConfirm ==
    /\ ev.op = "confirm_booking" /\ ev.ret = "False"
    /\ bk[ev.w].status = "CONFIRMED"
    /\ bk[ev.w].payment_status = "COMPLETED"
    /\ bookings[bk[ev.w].pk] = bk[ev.w]

\* ------------------------------------------------------------------ C5
\* C5: confirm_booking on a PENDING booking returns True and leaves the row
\* with status CONFIRMED, payment_status COMPLETED and confirmation_date set;
\* number_of_seats, total_price and the TravelOption's seats stay as they were.
C5_ConfirmPending ==
    [][\A w \in Workers :
          (/\ ev'.op = "confirm_booking" /\ ev'.w = w
           /\ bk[w].status = "PENDING")
          => (/\ ev'.ret = "True"
              /\ bookings'[bk[w].pk].status = "CONFIRMED"
              /\ bookings'[bk[w].pk].payment_status = "COMPLETED"
              /\ bookings'[bk[w].pk].confirmation_date # <<>>
              /\ bookings'[bk[w].pk].number_of_seats = bookings[bk[w].pk].number_of_seats
              /\ bookings'[bk[w].pk].total_price = bookings[bk[w].pk].total_price
              /\ bk'[w] = bookings'[bk[w].pk]
              /\ t_avail' = t_avail)]_vars

\* confirm_booking has just confirmed a booking.
C5_JustConfirmed ==
    /\ ev.op = "confirm_booking" /\ ev.ret = "True"
    /\ bookings[bk[ev.w].pk].status = "CONFIRMED"
    /\ bookings[bk[ev.w].pk].confirmation_date = <<now>>

\* ------------------------------------------------------------------ C6
\* C6: a POST to the booking-creation endpoint for an ACTIVE TravelOption
\* that has not departed, asking for 1 <= n <= available_seats seats, is
\* taken as valid; its INSERT writes a PENDING booking with a booking_id and
\* total_price = n * base_price; its end has taken n seats from the
\* TravelOption and written one BookingHistory row.
C6_CreateRequestBooks ==
    [][\A w \in Workers :
          /\ (/\ ev'.op = "BookingCreateView" /\ ev'.w = w
              /\ t_status = "ACTIVE" /\ now < departure
              /\ ev'.n >= MinValue /\ ev'.n <= MaxValue /\ ev'.n <= t_avail)
             => pc'[w] = "post_valid"
          /\ (pc[w] = "post_valid" /\ pc'[w] # "post_valid")
             => (/\ pc'[w] = "post_reduce"
                 /\ bk'[w].pk \in Rows'
                 /\ bookings'[bk'[w].pk].status = "PENDING"
                 /\ bookings'[bk'[w].pk].booking_id # 0
                 /\ bookings'[bk'[w].pk].total_price = bk[w].number_of_seats * t_price)
          /\ (pc[w] = "post_reduce" /\ pc'[w] # "post_reduce")
             => (/\ t_avail' = t_avail - bk[w].number_of_seats
                 /\ Len(history') = Len(history) + 1)]_vars

C8_RoundTripRestores ==
    [][\A w \in Workers :
          (/\ ev'.op = "BookingCancelView" /\ ev'.w = w
           /\ ev'.ret # "404"
           /\ now + CancelDeadline < departure)
          => (/\ bookings'[bk'[w].pk].status = "CANCELLED"
              /\ t_avail' = t_avail + ev'.n)]_vars

\* ------------------------------------------------------------------ C9
\* The two workers have each called reduce_available_seats(n) on a copy that
\* showed available_seats = n, and one of the copies was loaded before the
\* other worker's write: the calls overlap.
ConcurrentReduce(w1, w2) ==
    /\ w1 # w2
    /\ last[w1].op = "reduce" /\ last[w2].op = "reduce"
    /\ last[w1].n >= 1 /\ last[w1].n = last[w2].n
    /\ last[w1].seen = last[w1].n /\ last[w2].seen = last[w2].n
    /\ (last[w1].stale \/ last[w2].stale)

\* C9: of two concurrent reduce_available_seats(n) calls on a TravelOption
\* whose persisted available_seats is n, exactly one returns True.
C9_ExactlyOneReduceSucceeds ==
    \A w1, w2 \in Workers :
        ConcurrentReduce(w1, w2) =>
            ((last[w1].ret = "True") # (last[w2].ret = "True"))

\* ------------------------------------------------------------------ C10
RECURSIVE SumSeats(_)
SumSeats(k) == IF k = 0 THEN 0 ELSE bookings[k].number_of_seats + SumSeats(k - 1)

\* The seats of all bookings made through the form exceed the seats the
\* TravelOption had.
Oversold == SumSeats(MaxBookings) > avail0

\* Requests overlap: a form is between validation and the end of save() while
\* another form is too, or while its copy of the row is older than the row.
Overlapping ==
    \E w \in Workers :
        /\ pc[w] # "idle"
        /\ (opt[w].stale \/ \E x \in Workers \ {w} : pc[x] # "idle")

StatusEdges ==
    {<<"PENDING", "CONFIRMED">>, <<"CONFIRMED", "COMPLETED">>,
     <<"PENDING", "CANCELLED">>, <<"CONFIRMED", "CANCELLED">>}

\* C11: when the lifecycle operations run one after another, a new booking
\* row starts PENDING, every change of a row's status is one of the edges of
\* the state machine, and no row ever gets status REFUNDED.
C11_StatusEdges ==
    [][\A pk \in Pks :
          /\ (bookings[pk].pk = 0 /\ bookings'[pk].pk # 0)
                => bookings'[pk].status = "PENDING"
          /\ (bookings[pk].pk # 0 /\ bookings'[pk].status # bookings[pk].status)
                => <<bookings[pk].status, bookings'[pk].status>> \in StatusEdges
          /\ bookings'[pk].status # "REFUNDED"]_vars

\* A booking made through the form was paid and then marked completed.
C11_PaidAndCompleted ==
    \E pk \in Rows :
        /\ bookings[pk].status = "COMPLETED"
        /\ bookings[pk].payment_status = "PAID"

\* ------------------------------------------------------------------ C12
\* C12: once a booking row has status CANCELLED or COMPLETED its status never
\* changes again, whatever requests are in flight and whenever they loaded
\* the booking.
C12_TerminalStatus ==
    [][\A pk \in Pks :
          (bookings[pk].pk # 0 /\ bookings[pk].status \in {"CANCELLED", "COMPLETED"})
          => bookings'[pk].status = bookings[pk].status]_vars

\* ------------------------------------------------------------------ C13
\* C13: reduce_available_seats(n), called on an instance that shows the
\* persisted available_seats, returns True and takes exactly n from the
\* persisted available_seats when available_seats >= n; otherwise it returns
\* False and available_seats is unchanged in the row and in the instance;
\* total_seats is never changed.
C13_ReduceContract ==
    [][\A w \in Workers :
          (/\ ev'.op = "reduce" /\ ev'.w = w
           /\ opt[w].avail = t_avail)
          => (/\ IF t_avail >= ev'.n
                 THEN /\ ev'.ret = "True"
                      /\ t_avail' = t_avail - ev'.n
                      /\ opt'[w].avail = t_avail'
                 ELSE /\ ev'.ret = "False"
                      /\ t_avail' = t_avail
                      /\ opt'[w].avail = opt[w].avail
              /\ t_total' = t_total)]_vars

\* reduce_available_seats has just refused a count above available_seats.
C13_ReduceRefused ==
    /\ ev.op = "reduce" /\ ev.ret = "False"
    /\ ev.n > t_avail
    /\ opt[ev.w].avail = t_avail

\* ------------------------------------------------------------------ C14
\* C14: increase_available_seats(n), called on an instance that shows the
\* persisted available_seats, returns True and adds exactly n to the persisted
\* available_seats when available_seats + n <= total_seats; otherwise it
\* returns False and available_seats is unchanged; total_seats is never
\* changed.
C14_IncreaseContract ==
    [][\A w \in Workers :
          (/\ ev'.op = "increase" /\ ev'.w = w
           /\ opt[w].avail = t_avail)
          => (/\ IF t_avail + ev'.n <= t_total
                 THEN /\ ev'.ret = "True"
                      /\ t_avail' = t_avail + ev'.n
                      /\ opt'[w].avail = t_avail'
                 ELSE /\ ev'.ret = "False"
                      /\ t_avail' = t_avail
                      /\ opt'[w].avail = opt[w].avail
              /\ t_total' = t_total)]_vars

\* ------------------------------------------------------------------ C15
\* C15: when reduce_available_seats(n) has returned True on an instance and
\* increase_available_seats(n) is the next call on that instance, the second
\* call returns True and available_seats, in the instance and in the row, is
\* what the instance showed before the reduce.
C15_ReduceThenIncrease ==
    [][\A w \in Workers :
          (/\ ev'.op = "increase" /\ ev'.w = w
           /\ last[w].op = "reduce" /\ last[w].ret = "True"
           /\ last[w].n = ev'.n)
          => (/\ ev'.ret = "True"
              /\ opt'[w].avail = last[w].seen
              /\ t_avail' = last[w].seen)]_vars


\* ------------------------------------------------------------------ C16
\* C16: can_be_cancelled of a booking is false for status CANCELLED or
\* COMPLETED, false once the departure has passed, and true in every other
\* case, the last 24 hours before departure included.
C16_CancellableUntilDeparture ==
    \A pk \in Rows :
        can_be_cancelled(bookings[pk])
            = (/\ bookings[pk].status \notin {"CANCELLED", "COMPLETED"}
               /\ ~is_past_travel)


\* ------------------------------------------------------------------ C17
\* C17: a request to the cancellation endpoint made 24 hours or less before
\* departure is rejected and leaves every booking row (status and
\* cancellation_date included) and available_seats unchanged; a request for
\* a booking whose status is not CONFIRMED changes no row either.
C17_LateCancelRejected ==
    [][ev'.op = "BookingCancelView" =>
          /\ departure <= now + CancelDeadline =>
                 /\ ev'.ret \in {"redirect", "404"}
                 /\ bookings' = bookings
                 /\ t_avail' = t_avail
          /\ \A pk \in Pks :
                 bookings[pk].status # "CONFIRMED" => bookings'[pk] = bookings[pk]]_vars

\* A CONFIRMED booking was refused exactly 24 hours before departure.
C17_RefusedAtDeadline ==
    /\ ev.op = "BookingCancelView"
    /\ ev.ret = "redirect"
    /\ departure = now + CancelDeadline
    /\ \E pk \in Rows : bookings[pk].status = "CONFIRMED" /\ bk[ev.w] = bookings[pk]


\* ------------------------------------------------------------------ C18
\* The refund schedule by days until travel, in hundredths of total.
Schedule(days, total) ==
    IF days >= 7 THEN total * 90
    ELSE IF days >= 3 THEN total * 75
    ELSE IF days >= 1 THEN total * 50
    ELSE 0

\* C18: a booking that is not CANCELLED or COMPLETED and whose departure has
\* not passed gets the schedule's share of total_price for its days until
\* travel (90%, 75%, 50%, 0); any other booking gets 0; the refund never
\* exceeds total_price.
C18_RefundSchedule ==
    \A pk \in Rows :
        LET b == bookings[pk]
        IN /\ refund_amount(b) =
                  IF b.status \notin {"CANCELLED", "COMPLETED"} /\ ~is_past_travel
                  THEN Schedule(days_until_travel, b.total_price)
                  ELSE 0
           /\ refund_amount(b) <= b.total_price * 100


\* ------------------------------------------------------------------ C19
\* C19: a request to the cancellation endpoint for a CONFIRMED booking made
\* 7 or more days before departure cancels the booking, and the refund the
\* response reports, read from the booking after the cancellation, is 90% of
\* its total_price.
C19_ReportedRefund ==
    [][\A w \in Workers :
          (/\ ev'.op = "BookingCancelView"
           /\ ev'.w = w
           /\ ev'.ret # "404"
           /\ days_until_travel >= 7)
          => /\ ev'.ret \notin {"TypeError", "AttributeError"}
             /\ bookings'[bk'[w].pk].status = "CANCELLED"
             /\ refund_amount(bk[w])' = bk'[w].total_price * 90]_vars


\* ------------------------------------------------------------------ C20
\* C20: a booking created through the form gets total_price =
\* number_of_seats x the base_price of the TravelOption the creating request
\* holds, and no later step (confirm, payment, cancel, completion, a change
\* of the TravelOption's base_price) changes the total_price of a row.
C20_TotalPriceFixed ==
    [][\A pk \in Pks :
          /\ bookings[pk].pk # 0
                 => bookings'[pk].total_price = bookings[pk].total_price
          /\ (bookings[pk].pk = 0 /\ bookings'[pk].pk # 0)
                 => bookings'[pk].total_price
                        = bookings'[pk].number_of_seats * opt[ev'.w].price]_vars

\* A booking was confirmed while the TravelOption's base_price was no longer
\* the one its total_price was computed from.
C20_ConfirmedAtOldPrice ==
    /\ ev.op = "confirm_booking"
    /\ ev.ret = "True"
    /\ bookings[bk[ev.w].pk].status = "CONFIRMED"
    /\ bookings[bk[ev.w].pk].total_price # bookings[bk[ev.w].pk].number_of_seats * t_price


\* ------------------------------------------------------------------ C21
\* C21: the payment flow on a PENDING booking ends in one of two ways.  On a
\* passing draw the row is as confirm_booking would leave it: status
\* CONFIRMED, payment_status COMPLETED (one of PAYMENT_STATUS),
\* confirmation_date set.  On a failing draw no booking row, no seat count and
\* no PopularRoute counter changes, and the booking stays PENDING.
C21_PaymentOutcomes ==
    [][\A w \in Workers :
          (ev'.op = "PaymentView" /\ ev'.w = w /\ pc[w] = "payment")
          => \/ /\ ev'.ret = "payment_success"
                /\ bookings'[bk[w].pk].status = "CONFIRMED"
                /\ bookings'[bk[w].pk].payment_status = "COMPLETED"
                /\ bookings'[bk[w].pk].payment_status \in PAYMENT_STATUS
                /\ bookings'[bk[w].pk].confirmation_date # <<>>
             \/ /\ ev'.ret = "payment_failure"
                /\ bookings' = bookings
                /\ bookings[bk[w].pk].status = "PENDING"
                /\ t_avail' = t_avail
                /\ route' = route]_vars


\* ------------------------------------------------------------------ C22
\* C22: confirmation_date (cancellation_date) of a row is null until the row
\* first becomes CONFIRMED (CANCELLED), is set in the step that makes it so,
\* and once set is never written again by any later operation.
C22_DatesWrittenOnce ==
    [][\A pk \in Pks :
          bookings[pk].pk # 0 =>
              /\ bookings[pk].confirmation_date # <<>>
                    => bookings'[pk].confirmation_date = bookings[pk].confirmation_date
              /\ bookings[pk].cancellation_date # <<>>
                    => bookings'[pk].cancellation_date = bookings[pk].cancellation_date
              /\ bookings'[pk].confirmation_date # bookings[pk].confirmation_date
                    => (bookings[pk].status # "CONFIRMED"
                        /\ bookings'[pk].status = "CONFIRMED")
              /\ bookings'[pk].cancellation_date # bookings[pk].cancellation_date
                    => (bookings[pk].status # "CANCELLED"
                        /\ bookings'[pk].status = "CANCELLED")]_vars


\* ------------------------------------------------------------------ C23
\* C23: BookingHistory only grows, and every step that changes the status of
\* a booking row appends exactly one row to it that records the booking, the
\* status before and the status after; no step changes or removes a row.
C23_HistoryPerTransition ==
    [][/\ Len(history') >= Len(history)
       /\ SubSeq(history', 1, Len(history)) = history
       /\ \A pk \in Pks :
             (bookings[pk].pk # 0 /\ bookings'[pk].status # bookings[pk].status)
             => /\ Len(history') = Len(history) + 1
                /\ history'[Len(history')] =
                       [booking |-> pk, status_from |-> bookings[pk].status,
                        status_to |-> bookings'[pk].status]]_vars


\* ------------------------------------------------------------------ C24
\* C24: the PopularRoute row of a key is created on first reference with both
\* counters 0; whenever no event is under way there is a row exactly if an
\* event has happened, its search_count is the number of search events and
\* its booking_count the number of successful payments; no step lowers a
\* counter, and a step that raises one leaves the other as it was.
C24_CountersExact ==
    [][/\ (~route.exists /\ route'.exists)
             => (route'.search_count = 0 /\ route'.booking_count = 0)
       /\ (\A w \in Workers : pc'[w] = "idle")
             => /\ route'.search_count = counted'.search
                /\ route'.booking_count = counted'.booking
                /\ route'.exists = (counted'.search + counted'.booking > 0)
       /\ route'.search_count >= route.search_count
       /\ route'.booking_count >= route.booking_count
       /\ route'.search_count = route.search_count
             \/ route'.booking_count = route.booking_count]_vars

\* A search has just been counted while the other request still holds an
\* instance of the row from before that.
C24_CountedPastOlderInstance ==
    /\ ev.op = "update_route_popularity"
    /\ route.search_count = counted.search
    /\ \E w \in Workers :
          /\ pc[w] \in {"search_save", "booking_save"}
          /\ rt[w].search_count < route.search_count


\* ------------------------------------------------------------------ C25
\* Seats of the bookings in S.
RECURSIVE SeatsOf(_)
SeatsOf(S) ==
    IF S = {} THEN 0
    ELSE LET pk == CHOOSE x \in S : TRUE
         IN bookings[pk].number_of_seats + SeatsOf(S \ {pk})

\* The bookings a step cancels.
CancelledBy == {pk \in Pks : bookings[pk].status # "CANCELLED"
                             /\ bookings'[pk].status = "CANCELLED"}

\* C25: the admin bulk cancel reports the number of bookings it cancelled,
\* and the persisted available_seats afterwards is higher by the seats of
\* these bookings together, also when they are on the same TravelOption.
C25_BulkCancelRestoresAll ==
    [][ev'.op = "cancel_bookings"
          => /\ ev'.n = Cardinality(CancelledBy)
             /\ t_avail' = t_avail + SeatsOf(CancelledBy)]_vars


\* ------------------------------------------------------------------ C26
\* TKT followed by 7 decimal digits, 10 characters.
TicketFormat(text) ==
    /\ Len(text) = 10
    /\ SubSeq(text, 1, 3) = <<"T", "K", "T">>
    /\ \A i \in 4 .. 10 : \E d \in 1 .. 10 : text[i] = digits[d]

\* C26: any two booking rows have different booking_id values, every
\* booking_id is TKT and 7 decimal digits, a row has its booking_id from the
\* step that inserts it, and no later save changes it.
C26_BookingIdUniqueAndFixed ==
    [][/\ \A p, q \in Rows' :
             p # q => bookings'[p].booking_id # bookings'[q].booking_id
       /\ \A p \in Rows' :
             /\ bookings'[p].booking_id # 0
             /\ TicketFormat(generate_booking_id(bookings'[p].booking_id))
       /\ \A p \in Rows :
             bookings'[p].booking_id = bookings[p].booking_id]_vars

\* A second booking's draw hit the id of the first: the INSERT was refused
\* and the booking that holds the id has since been saved again.
C26_CollisionRefused ==
    /\ ev.op = "BookingForm.save"
    /\ ev.ret = "IntegrityError"
    /\ \E p \in Rows : bookings[p].status = "CONFIRMED"


\* ------------------------------------------------------------------ C27
\* Seats of the bookings among rows 1 .. k that hold seats: PENDING, CONFIRMED
\* or COMPLETED.
RECURSIVE HeldSeats(_)
HeldSeats(k) ==
    IF k = 0 THEN 0
    ELSE (IF bookings[k].pk # 0
             /\ bookings[k].status \in {"PENDING", "CONFIRMED", "COMPLETED"}
          THEN bookings[k].number_of_seats ELSE 0) + HeldSeats(k - 1)

\* C27: between the calls of a run in which bookings are made through the
\* form, confirmed and cancelled one call after another, available_seats plus
\* the seats held by PENDING, CONFIRMED and COMPLETED bookings is the
\* available_seats the TravelOption started with.
C27_SeatConservation ==
    (\A w \in Workers : pc[w] = "idle")
        => t_avail + HeldSeats(MaxBookings) = avail0


\* ------------------------------------------------------------------ C28
\* C28: the seats of a booking are given back at most once.  Bookings made
\* with Booking.objects.create take no seat, so cancel_booking is all that
\* moves available_seats: for a booking whose seats fit (initial
\* available_seats + number_of_seats <= total_seats), whatever two requests
\* do with their own copies, available_seats is never more than
\* number_of_seats above its initial value, and is exactly that much above it
\* once the booking is CANCELLED and no request is under way.
C28_RestoredOnce ==
    \A pk \in Rows :
        (Cardinality(Rows) = 1 /\ avail0 + bookings[pk].number_of_seats <= t_total)
        => /\ t_avail <= avail0 + bookings[pk].number_of_seats
           /\ (bookings[pk].status = "CANCELLED" /\ \A w \in Workers : pc[w] = "idle")
                  => t_avail = avail0 + bookings[pk].number_of_seats


\* ------------------------------------------------------------------ C29
\* C29: in every state every CONFIRMED booking row has a confirmation_date,
\* every CANCELLED row has a cancellation_date, and every PENDING row has no
\* confirmation_date, whichever operation made the row what it is.
C29_DatesMatchStatus ==
    \A pk \in Rows :
        /\ bookings[pk].status = "CONFIRMED" => bookings[pk].confirmation_date # <<>>
        /\ bookings[pk].status = "CANCELLED" => bookings[pk].cancellation_date # <<>>
        /\ bookings[pk].status = "PENDING" => bookings[pk].confirmation_date = <<>>


\* ------------------------------------------------------------------ C30
\* C30: a submission of TravelOptionForm with available_seats above
\* total_seats is rejected, so every submission the form accepts leaves the
\* row with 0 <= available_seats <= total_seats, 0 included.
C30_InventoryFormKeepsBounds ==
    [][(ev'.op = "TravelOptionForm" /\ ev'.ret = "valid")
          => (0 <= t_avail' /\ t_avail' <= t_total')]_vars

=============================================================================
